---- MODULE Spec2Model ----
(***************************************************************************)
(* tc-release (src/tc_release/tc_release.py): main, _main, make_release,   *)
(* make_deploy and the helpers they call, as a state machine.              *)
(*                                                                         *)
(* Strings the code takes apart (the version tag, file names, the project  *)
(* title) are sequences of one-character strings or of dot-separated       *)
(* parts; strings the code only compares are TLA+ strings.                 *)
(***************************************************************************)
EXTENDS Integers, Sequences, FiniteSets, TLC

VARIABLES
    pc,              \* position of the process in main / _main / make_release
    args,            \* TcReleaseArgs of the current invocation
    originTags,      \* names of the tags of the remote "origin"
    repo,            \* the Repo handle: "none", "open" or "closed"
    workdir,         \* the working directory: "absent", "present", "removed"
    repoTags,        \* names of the tags of the local repository
    version_string,  \* result of the version regex: [found, group]
    files,           \* files of the checkout, in os.walk order
    plcproj_file,    \* index in files of the selected project, 0 if none
    plcproj_root,    \* the parsed project document, NoDoc before the parse
    plcproj_disk,    \* what make_release wrote to plcproj_file, else NoDoc
    GV_TcGVL_file,   \* what make_release wrote to Global_Version.TcGVL
    commit,          \* the commit make_release created, NoCommit if none
    pushStatus,      \* number of pushes to origin in this invocation
    deployed,        \* what make_deploy did
    exc,             \* the exception in flight or being handled, NoExc if none
    error_msg,       \* the exception whose args[0] the handler logged
    return_value,    \* main's return_value
    exit,            \* how main ended: "running", "returned" or "raised"
    linkStart,       \* project file before the first linking run (SpecLink)
    linkFile,        \* project file of the linking runs (SpecLink)
    linkRuns,        \* number of linking runs made on linkFile (SpecLink)
    deploy_dir,      \* the directory tree find_makefiles walks (SpecMake)
    make_dirs        \* [list]: what find_makefiles returned; NoMakeDirs before

\* the variables of the linking runs
links == <<linkStart, linkFile, linkRuns>>

\* the variables of the search for Makefiles
walks == <<deploy_dir, make_dirs>>

vars == <<pc, args, originTags, repo, workdir, repoTags, version_string, files,
          plcproj_file, plcproj_root, plcproj_disk, GV_TcGVL_file, commit,
          pushStatus, deployed, exc, error_msg, return_value, exit,
          linkStart, linkFile, linkRuns, deploy_dir, make_dirs>>

(***************************************************************************)
(* Bounds of the model.                                                    *)
(***************************************************************************)
MaxComponents == 5   \* dotted components of the version tags tried
MaxFiles == 3        \* files in a checkout
MaxReleases == 1     \* tags on origin beyond which no new invocation starts
MaxItems == 2        \* ItemGroup entries of a project file before linking
MaxLinkRuns == 3     \* successive linking runs on one project file
MaxDirs == 4         \* directories below the one find_makefiles starts in

(***************************************************************************)
(* Characters and the version tag.                                         *)
(***************************************************************************)
DigitChars == <<"0", "1", "2", "3", "4", "5", "6", "7", "8", "9">>

IsDigit(c) == \E i \in 1..Len(DigitChars) : DigitChars[i] = c

\* the character class [\d.] of the version pattern
IsDigitOrDot(c) == c = "." \/ IsDigit(c)

Min(S) == CHOOSE m \in S : \A n \in S : m <= n

\* end of the longest run of [\d.] that starts at i (greedy +)
RunEnd(s, i) ==
    CHOOSE j \in i..Len(s) :
        /\ \A k \in i..j : IsDigitOrDot(s[k])
        /\ (j = Len(s) \/ ~IsDigitOrDot(s[j + 1]))

\* positions where r"v([\d.]+)" can match: a "v" followed by a digit or dot
MatchStarts(s) == {i \in 1..(Len(s) - 1) : s[i] = "v" /\ IsDigitOrDot(s[i + 1])}

\* re.search(r"v([\d.]+)", s): the leftmost match anywhere in s, None if none
ReSearch(s) ==
    IF MatchStarts(s) = {}
    THEN [found |-> FALSE, group |-> <<>>]
    ELSE LET i == Min(MatchStarts(s))
         IN  [found |-> TRUE, group |-> SubSeq(s, i + 1, RunEnd(s, i + 1))]

\* str.split("."): the parts between the dots, empty parts kept
RECURSIVE Split(_)
Split(s) ==
    IF \A i \in 1..Len(s) : s[i] # "."
    THEN <<s>>
    ELSE LET i == Min({k \in 1..Len(s) : s[k] = "."})
         IN  <<SubSeq(s, 1, i - 1)>> \o Split(SubSeq(s, i + 1, Len(s)))

\* the title with " " and "-" replaced by "_"
ReplaceTitle(t) ==
    [i \in 1..Len(t) |-> IF t[i] = " " \/ t[i] = "-" THEN "_" ELSE t[i]]

(***************************************************************************)
(* Exceptions: the type, the number of constructor arguments (exc.args)    *)
(* and the source line that raises.                                        *)
(***************************************************************************)
NoExc == [none |-> TRUE]

Raise(type, nargs, line) == [type |-> type, nargs |-> nargs, line |-> line]

(***************************************************************************)
(* split_version_string and the fields of the struct literal.  An index    *)
(* past the end of the list raises IndexError at the line that indexes.    *)
(***************************************************************************)
RevisionIndex == 5   \* split_version_string[4], counted from 1

\* the line that raises IndexError for these components, 0 if none
VersionFieldsError(c) ==
    IF Len(c) < 2 THEN 429
    ELSE IF Len(c) < 3 THEN 430
    ELSE IF Len(c) > 3 /\ Len(c) < RevisionIndex THEN 432
    ELSE 0

VersionFields(c) ==
    [iMajor |-> c[1], iMinor |-> c[2], iBuild |-> c[3],
     iRevision |-> IF Len(c) > 3 THEN c[RevisionIndex] ELSE <<"0">>]

(***************************************************************************)
(* Files of the checkout.  A file name is the sequence of its dot-         *)
(* separated parts: a.b.plcproj is <<"a", "b", "plcproj">>.                *)
(***************************************************************************)
FilePool == << <<"a", "b", "plcproj">>, <<"a", "plcproj">>,
               <<"b", "PLCPROJ">>, <<"m", "TcPOU">> >>

RECURSIVE PoolSeq(_)
PoolSeq(S) ==
    IF S = {} THEN <<>>
    ELSE <<FilePool[Min(S)]>> \o PoolSeq(S \ {Min(S)})

\* the checkouts tried: at most MaxFiles files of the pool, in walk order
Checkouts ==
    {PoolSeq(S) :
        S \in {T \in SUBSET (1..Len(FilePool)) : Cardinality(T) <= MaxFiles}}

\* str.lower() on the parts used here
Lower(p) ==
    CASE p = "PLCPROJ" -> "plcproj"
      [] p = "TcPOU" -> "tcpou"
      [] OTHER -> p

\* fnmatch.fnmatch(name.lower(), ("*." + ext).lower())
Fnmatch(name, ext) == Len(name) >= 2 /\ Lower(name[Len(name)]) = Lower(ext)

\* find("*." + ext, path): the matching files, in walk order
find(ext, tree) == SelectSeq(tree, LAMBDA name : Fnmatch(name, ext))

\* os.path.split(proj)[1].split(".")[0] == select_plcproj; the selector is
\* the sequence of its dot-separated parts, <<>> when omitted or empty
SelectorMatches(select_plcproj, proj) ==
    Len(select_plcproj) = 1 /\ select_plcproj[1] = proj[1]

\* the locator without its check for several project files
LocateFirst(plcproj_path, select_plcproj) ==
    IF Len(plcproj_path) = 0
    THEN [exc |-> Raise("RuntimeError", 1, 349), index |-> 0]
    ELSE IF select_plcproj # <<>>
    THEN LET hits == {i \in 1..Len(plcproj_path) :
                         SelectorMatches(select_plcproj, plcproj_path[i])}
         IN  IF hits = {}
             THEN [exc |-> Raise("RuntimeError", 1, 356), index |-> 0]
             ELSE [exc |-> NoExc, index |-> Min(hits)]
    ELSE [exc |-> NoExc, index |-> 1]

\* the locator of make_release: the index of the selected file, or the error
Locate(plcproj_path, select_plcproj) ==
    IF Len(plcproj_path) = 0
    THEN [exc |-> Raise("RuntimeError", 1, 349), index |-> 0]
    ELSE IF select_plcproj # <<>>
    THEN LET hits == {i \in 1..Len(plcproj_path) :
                         SelectorMatches(select_plcproj, plcproj_path[i])}
         IN  IF hits = {}
             THEN [exc |-> Raise("RuntimeError", 1, 356), index |-> 0]
             ELSE [exc |-> NoExc, index |-> Min(hits)]
    ELSE IF Len(plcproj_path) > 1
    THEN [exc |-> Raise("RuntimeError", 1, 358), index |-> 0]
    ELSE [exc |-> NoExc, index |-> 1]

(***************************************************************************)
(* The project document.  On disk an ItemGroup entry is its tag, Include   *)
(* and number of children; parsed, it also has its namespace: qualified is *)
(* TRUE for an element in the document's default namespace.  An element    *)
(* made by etree.XML from a literal without xmlns is not qualified; it is  *)
(* written without a namespace declaration, so a later parse puts it in    *)
(* the default namespace of the file.                                      *)
(***************************************************************************)
NoDoc == [none |-> TRUE]

VersionInclude == "Version"
GVLInclude == "Version\\Global_Version.TcGVL"

FolderPOUs == [tag |-> "Folder", include |-> "POUs", children |-> 0]
FolderVersion == [tag |-> "Folder", include |-> VersionInclude, children |-> 0]
CompileMain ==
    [tag |-> "Compile", include |-> "POUs\\MAIN.TcPOU", children |-> 1]
CompileVersion == [tag |-> "Compile", include |-> GVLInclude, children |-> 1]
CompileVersionBare ==
    [tag |-> "Compile", include |-> GVLInclude, children |-> 0]

ItemPool ==
    {FolderPOUs, FolderVersion, CompileMain, CompileVersion, CompileVersionBare}

ItemSeqs == UNION {[1..n -> ItemPool] : n \in 0..MaxItems}

InitialVersion == <<"0", ".", "0", ".", "0">>
ProjectTitle == <<"m", "y", "-", "l", "i", "b">>

ProjectFile(xmlns, hasVersion, hasTitle, items) ==
    [xmlns |-> xmlns,
     ProjectVersion |-> [present |-> hasVersion, text |-> InitialVersion],
     Title |-> [present |-> hasTitle, text |-> ProjectTitle],
     items |-> items]

\* etree.parse: every element is in the default namespace of the file, if any
Parse(file) ==
    [file EXCEPT !.items =
        [i \in 1..Len(file.items) |->
            [tag |-> file.items[i].tag, include |-> file.items[i].include,
             children |-> file.items[i].children, qualified |-> file.xmlns]]]

\* ElementTree.write: the namespace of an added element is not written
Serialize(root) ==
    [root EXCEPT !.items =
        [i \in 1..Len(root.items) |->
            [tag |-> root.items[i].tag, include |-> root.items[i].include,
             children |-> root.items[i].children]]]

\* root.find(".//ItemGroup/<tag>", nsmap), with include the [@Include=...]
\* predicate or "" for none: the index of the first match, 0 for None
FindItem(root, tag, include) ==
    LET hits == {i \in 1..Len(root.items) :
                    /\ root.items[i].tag = tag
                    /\ root.items[i].qualified = root.xmlns
                    /\ (include = "" \/ root.items[i].include = include)}
    IN  IF hits = {} THEN 0 ELSE Min(hits)

\* element.addnext(new): new becomes the next sibling of the element at i
AddNext(root, i, new) ==
    [root EXCEPT !.items =
        SubSeq(root.items, 1, i) \o <<new>>
            \o SubSeq(root.items, i + 1, Len(root.items))]

\* "ver is None or not len(ver)": len of an element is its number of children
NoneOrEmpty(root, i) == i = 0 \/ root.items[i].children = 0

\* lines 480-485: link the Version folder
LinkFolder(root) ==
    LET ver_folders == FindItem(root, "Folder", VersionInclude)
        folder == FindItem(root, "Folder", "")
    IN  IF ~NoneOrEmpty(root, ver_folders)
        THEN [exc |-> NoExc, root |-> root]
        ELSE IF folder = 0
        THEN [exc |-> Raise("AttributeError", 1, 485), root |-> root]
        ELSE [exc |-> NoExc,
              root |-> AddNext(root, folder,
                               [tag |-> "Folder", include |-> VersionInclude,
                                children |-> 0, qualified |-> FALSE])]

\* the Compile step without its check for an existing entry
LinkCompileAlways(root) ==
    LET compile_include == FindItem(root, "Compile", "")
    IN  IF compile_include = 0
        THEN [exc |-> Raise("AttributeError", 1, 492), root |-> root]
        ELSE [exc |-> NoExc,
              root |-> AddNext(root, compile_include,
                               [tag |-> "Compile", include |-> GVLInclude,
                                children |-> 1, qualified |-> FALSE])]

\* lines 487-500: link Version\Global_Version.TcGVL
LinkCompile(root) ==
    LET ver_compiles == FindItem(root, "Compile", GVLInclude)
        compile_include == FindItem(root, "Compile", "")
    IN  IF ~NoneOrEmpty(root, ver_compiles)
        THEN [exc |-> NoExc, root |-> root]
        ELSE IF compile_include = 0
        THEN [exc |-> Raise("AttributeError", 1, 492), root |-> root]
        ELSE [exc |-> NoExc,
              root |-> AddNext(root, compile_include,
                               [tag |-> "Compile", include |-> GVLInclude,
                                children |-> 1, qualified |-> FALSE])]

\* lines 480-500: the linking step; the Compile check is not reached when
\* the Folder step raises
Link(root) ==
    LET f == LinkFolder(root)
    IN  IF f.exc # NoExc THEN f ELSE LinkCompile(f.root)

(***************************************************************************)
(* Inputs of an invocation: the command line, and what the process reads   *)
(* from the remote, the checkout and the deploy root when it gets there.   *)
(***************************************************************************)
\* "1", "1.2", "1.2.3", ...: n dotted components
RECURSIVE Dotted(_)
Dotted(n) ==
    IF n = 1 THEN <<DigitChars[2]>>
    ELSE Dotted(n - 1) \o <<".", DigitChars[n + 1]>>

\* the tags tried: well formed, with a prefix, with a suffix, without the "v"
VersionTags ==
    UNION {{<<"v">> \o Dotted(n),
            <<"x", "v">> \o Dotted(n),
            <<"v">> \o Dotted(n) \o <<"r", "c">>,
            Dotted(n)} : n \in 1..MaxComponents}

Selectors == {<<>>, <<"a">>, <<"a", "b">>}

\* parse_args: TcReleaseArgs
ArgSets ==
    {[version_string |-> t, plcproj |-> s, deploy |-> d.deploy,
      deploy_path |-> d.deploy_path, dry_run |-> r] :
        t \in VersionTags, s \in Selectors, r \in BOOLEAN,
        d \in {[deploy |-> FALSE, deploy_path |-> ""],
               [deploy |-> TRUE, deploy_path |-> ""],
               [deploy |-> TRUE, deploy_path |-> "/deploy"]}}

NoArgs == [none |-> TRUE]

\* the remote at the time of the fetch
Remotes == [exists : BOOLEAN, master : BOOLEAN]

\* the project files a checkout can hold
ReleaseFiles ==
    {ProjectFile(TRUE, TRUE, TRUE, <<FolderPOUs, CompileMain>>),
     ProjectFile(TRUE, TRUE, TRUE, <<FolderVersion, CompileVersion>>),
     ProjectFile(TRUE, TRUE, TRUE, <<CompileMain>>),
     ProjectFile(TRUE, TRUE, TRUE, <<FolderPOUs>>),
     ProjectFile(TRUE, FALSE, TRUE, <<FolderPOUs, CompileMain>>),
     ProjectFile(TRUE, TRUE, FALSE, <<FolderPOUs, CompileMain>>)}

\* root attributes of the first .TcPOU file; "" is an absent attribute
PouRoots ==
    {[ProductVersion |-> "3.1.4024.0", Version |-> "1.1.0.1"],
     [ProductVersion |-> "", Version |-> "1.1.0.1"],
     [ProductVersion |-> "3.1.4024.0", Version |-> ""]}

\* tcgvl.txt: the skeleton of Global_Version.TcGVL, with its struct literal
GlobalVersion_TcGVL ==
    [ProductVersion |-> "3.1.0.18", Version |-> "1.1.0.1", Id |-> "template",
     Declaration |-> [title |-> <<"T">>, iMajor |-> <<"0">>, iMinor |-> <<"0">>,
                      iBuild |-> <<"0">>, iRevision |-> <<"0">>,
                      sVersion |-> <<"0">>]]

NoGVL == [none |-> TRUE]
NoCommit == [none |-> TRUE]
NoDeployDir == [none |-> TRUE]

NoMakeDirs == [none |-> TRUE]

NoDeploy == [none |-> TRUE]

\* the deploy root: $EPICS_SITE_TOP/ioc, its folders, and the deploy path
DeployEnvs ==
    [ioc : BOOLEAN,
     categories : {<<>>, <<"kfe">>, <<"kfe", "lfe">>},
     isdir : BOOLEAN]

\* repo_name.split("-") of the repository released
RepoParts == <<"lcls", "plc", "lfe", "vac">>

(***************************************************************************)
(* Init: no invocation yet; origin has no tag or one release.              *)
(***************************************************************************)
Init ==
    /\ pc = "idle"
    /\ args = NoArgs
    /\ originTags \in {{}, {<<"v">> \o Dotted(3)}}
    /\ repo = "none"
    /\ workdir = "absent"
    /\ repoTags = {}
    /\ version_string = [found |-> FALSE, group |-> <<>>]
    /\ files = <<>>
    /\ plcproj_file = 0
    /\ plcproj_root = NoDoc
    /\ plcproj_disk = NoDoc
    /\ GV_TcGVL_file = NoGVL
    /\ commit = NoCommit
    /\ pushStatus = 0
    /\ deployed = NoDeploy
    /\ exc = NoExc
    /\ error_msg = NoExc
    /\ return_value = 0
    /\ exit = "running"
    /\ linkStart = NoDoc
    /\ linkFile = NoDoc
    /\ linkRuns = 0
    /\ deploy_dir = NoDeployDir
    /\ make_dirs = NoMakeDirs

\* the exception is caught around make_release alone and _main goes on to
\* make_deploy
ThrowThenDeploy(e) == exc' = e /\ pc' = "deploy"

\* a step of make_release or make_deploy raises: control goes to main's handler
Throw(e) == exc' = e /\ pc' = "except"

(***************************************************************************)
(* main, lines 551-555: parse_args, configure_logging, initialize_repo.    *)
(* A working directory kept by an earlier dry run is initialised again.    *)
(***************************************************************************)
Start ==
    /\ pc \in {"idle", "exited"}
    /\ Cardinality(originTags) <= MaxReleases
    /\ \E a \in ArgSets : args' = a
    /\ pc' = "prepare"
    /\ repo' = "open"
    /\ workdir' = IF workdir \in {"fresh", "stale"} THEN "stale" ELSE "fresh"
    /\ repoTags' = {}
    /\ version_string' = [found |-> FALSE, group |-> <<>>]
    /\ files' = <<>>
    /\ plcproj_file' = 0
    /\ plcproj_root' = NoDoc
    /\ plcproj_disk' = NoDoc
    /\ GV_TcGVL_file' = NoGVL
    /\ commit' = NoCommit
    /\ pushStatus' = 0
    /\ deployed' = NoDeploy
    /\ exc' = NoExc
    /\ error_msg' = NoExc
    /\ return_value' = 0
    /\ exit' = "running"
    /\ UNCHANGED <<originTags, links, walks>>

(***************************************************************************)
(* make_release, lines 317-334: add the remote, fetch, check out master,   *)
(* and return when the tag already exists.                                 *)
(***************************************************************************)
\* the check with the name compared to the tag objects: never equal
TagExistsNever(tag, tags) == FALSE

TagExists(tag, tags) == tag \in tags

Prepare ==
    /\ pc = "prepare"
    /\ \E remote \in Remotes :
        IF workdir = "stale"
        THEN /\ Throw(Raise("GitCommandError", 4, 319))
             /\ UNCHANGED repoTags
        ELSE IF ~remote.exists
        THEN /\ Throw(Raise("RuntimeError", 1, 322))
             /\ UNCHANGED repoTags
        ELSE /\ repoTags' = originTags
             /\ IF ~remote.master
                THEN Throw(Raise("AttributeError", 1, 326))
                ELSE /\ pc' = IF TagExists(args.version_string, originTags)
                              THEN "deploy" ELSE "validate"
                     /\ UNCHANGED exc
    /\ UNCHANGED <<args, originTags, repo, workdir, version_string, files,
                   plcproj_file, plcproj_root, plcproj_disk, GV_TcGVL_file,
                   commit, pushStatus, deployed, return_value, exit,
                   error_msg, links, walks>>

(***************************************************************************)
(* make_release, lines 336-340: the format of the version.                 *)
(***************************************************************************)
Validate ==
    /\ pc = "validate"
    /\ LET m == ReSearch(args.version_string)
       IN  IF ~m.found
           THEN /\ Throw(Raise("AttributeError", 1, 338))
                /\ UNCHANGED version_string
           ELSE /\ version_string' = m
                /\ IF m.group = <<>>
                   THEN Throw(Raise("ValueError", 1, 340))
                   ELSE pc' = "locate" /\ UNCHANGED exc
    /\ UNCHANGED <<args, originTags, repo, workdir, repoTags, files,
                   plcproj_file, plcproj_root, plcproj_disk, GV_TcGVL_file,
                   commit, pushStatus, deployed, return_value, exit,
                   error_msg, links, walks>>

(***************************************************************************)
(* make_release, lines 345-360: find the project file.                     *)
(***************************************************************************)
LocateProject ==
    /\ pc = "locate"
    /\ \E tree \in Checkouts :
        /\ files' = tree
        /\ LET r == Locate(find("plcproj", tree), args.plcproj)
           IN  /\ plcproj_file' = r.index
               /\ IF r.exc # NoExc
                  THEN Throw(r.exc)
                  ELSE pc' = "parse" /\ UNCHANGED exc
    /\ UNCHANGED <<args, originTags, repo, workdir, repoTags, version_string,
                   plcproj_root, plcproj_disk, GV_TcGVL_file, commit,
                   pushStatus, deployed, return_value, exit, error_msg,
                   links, walks>>

(***************************************************************************)
(* make_release, lines 362-388: parse the project, find ProjectVersion and *)
(* Title, set the version.                                                 *)
(***************************************************************************)
ParseProject ==
    /\ pc = "parse"
    /\ \E file \in ReleaseFiles :
        LET root == Parse(file)
        IN  IF ~root.ProjectVersion.present \/ ~root.Title.present
            THEN /\ Throw(Raise("RuntimeError", 1, 383))
                 /\ plcproj_root' = root
            ELSE /\ plcproj_root' =
                        [root EXCEPT !.ProjectVersion.text = version_string.group]
                 /\ pc' = "gvl"
                 /\ UNCHANGED exc
    /\ UNCHANGED <<args, originTags, repo, workdir, repoTags, version_string,
                   files, plcproj_file, plcproj_disk, GV_TcGVL_file, commit,
                   pushStatus, deployed, return_value, exit, error_msg,
                   links, walks>>

(***************************************************************************)
(* make_release, lines 398-475: build Global_Version.TcGVL from the        *)
(* skeleton, the first .TcPOU and the version, and write it.               *)
(***************************************************************************)
\* lines 436-458: the struct literal put in place of the skeleton's
Declaration(version, title) ==
    LET f == VersionFields(Split(version))
    IN  [title |-> ReplaceTitle(title), iMajor |-> f.iMajor, iMinor |-> f.iMinor,
         iBuild |-> f.iBuild, iRevision |-> f.iRevision, sVersion |-> version]

BuildGVL ==
    /\ pc = "gvl"
    /\ IF Len(find("TcPOU", files)) = 0
       THEN /\ Throw(Raise("IndexError", 1, 400))
            /\ UNCHANGED GV_TcGVL_file
       ELSE \E pou \in PouRoots :
            IF pou.Version = ""
            THEN /\ Throw(Raise("TypeError", 1, 413))
                 /\ UNCHANGED GV_TcGVL_file
            ELSE IF VersionFieldsError(Split(version_string.group)) # 0
            THEN /\ Throw(Raise("IndexError", 1,
                                VersionFieldsError(Split(version_string.group))))
                 /\ UNCHANGED GV_TcGVL_file
            ELSE /\ GV_TcGVL_file' =
                        [ProductVersion |-> IF pou.ProductVersion # ""
                                            THEN pou.ProductVersion
                                            ELSE GlobalVersion_TcGVL.ProductVersion,
                         Version |-> pou.Version,
                         Id |-> "uuid4",
                         Declaration |-> Declaration(version_string.group,
                                                     plcproj_root.Title.text)]
                 /\ pc' = "link"
                 /\ UNCHANGED exc
    /\ UNCHANGED <<args, originTags, repo, workdir, repoTags, version_string,
                   files, plcproj_file, plcproj_root, plcproj_disk, commit,
                   pushStatus, deployed, return_value, exit, error_msg,
                   links, walks>>

(***************************************************************************)
(* make_release, lines 477-505: link the generated file into the project   *)
(* and write the project file.                                             *)
(***************************************************************************)
LinkProject ==
    /\ pc = "link"
    /\ LET r == Link(plcproj_root)
       IN  /\ plcproj_root' = r.root
           /\ IF r.exc # NoExc
              THEN /\ Throw(r.exc)
                   /\ UNCHANGED plcproj_disk
              ELSE /\ plcproj_disk' = Serialize(r.root)
                   /\ pc' = "commit"
                   /\ UNCHANGED exc
    /\ UNCHANGED <<args, originTags, repo, workdir, repoTags, version_string,
                   files, plcproj_file, GV_TcGVL_file, commit, pushStatus,
                   deployed, return_value, exit, error_msg, links, walks>>

(***************************************************************************)
(* make_release, lines 507-518: stage both files, commit, tag the commit.  *)
(***************************************************************************)
Commit ==
    /\ pc = "commit"
    /\ commit' = [message |-> args.version_string,
                  staged |-> {"Global_Version.TcGVL", "plcproj"},
                  tag |-> args.version_string]
    /\ repoTags' = repoTags \cup {args.version_string}
    /\ pc' = "push"
    /\ UNCHANGED <<args, originTags, repo, workdir, version_string, files,
                   plcproj_file, plcproj_root, plcproj_disk, GV_TcGVL_file,
                   pushStatus, deployed, exc, return_value, exit, error_msg,
                   links, walks>>

(***************************************************************************)
(* make_release, lines 520-530: push the tags unless dry_run.              *)
(***************************************************************************)
\* the push without the dry_run test of line 523
PushAlways ==
    /\ pc = "push"
    /\ pushStatus' = pushStatus + 1
    /\ originTags' = originTags \cup repoTags
    /\ pc' = "deploy"
    /\ UNCHANGED <<args, repo, workdir, repoTags, version_string, files,
                   plcproj_file, plcproj_root, plcproj_disk, GV_TcGVL_file,
                   commit, deployed, exc, return_value, exit, error_msg,
                   links, walks>>

Push ==
    /\ pc = "push"
    /\ IF args.dry_run
       THEN UNCHANGED <<pushStatus, originTags>>
       ELSE /\ pushStatus' = pushStatus + 1
            /\ originTags' = originTags \cup repoTags
    /\ pc' = "deploy"
    /\ UNCHANGED <<args, repo, workdir, repoTags, version_string, files,
                   plcproj_file, plcproj_root, plcproj_disk, GV_TcGVL_file,
                   commit, deployed, exc, return_value, exit, error_msg,
                   links, walks>>

(***************************************************************************)
(* _main, line 542: make_deploy (lines 248-289) and deploy (203-245).      *)
(***************************************************************************)
\* lines 264-268: the first folder of the deploy root named in the repo name
CorrectCategory(categories) ==
    LET hits == {i \in 1..Len(categories) :
                    \E j \in 1..Len(RepoParts) : RepoParts[j] = categories[i]}
    IN  IF hits = {} THEN "" ELSE categories[Min(hits)]

MakeDeploy ==
    /\ pc = "deploy"
    /\ IF ~args.deploy
       THEN /\ pc' = "finally"
            /\ UNCHANGED <<deployed, exc>>
       ELSE \E env \in DeployEnvs :
            IF args.deploy_path = "" /\ ~env.ioc
            THEN /\ Throw(Raise("StopIteration", 0, 261))
                 /\ UNCHANGED deployed
            ELSE IF args.deploy_path = "" /\ CorrectCategory(env.categories) = ""
            THEN /\ Throw(Raise("RuntimeError", 1, 271))
                 /\ UNCHANGED deployed
            ELSE IF ~env.isdir
            THEN /\ Throw(Raise("RuntimeError", 1, 276))
                 /\ UNCHANGED deployed
            ELSE IF ~args.dry_run /\ args.version_string \notin originTags
            THEN /\ Throw(Raise("GitCommandError", 4, 235))
                 /\ deployed' = [path |-> IF args.deploy_path # ""
                                          THEN args.deploy_path
                                          ELSE CorrectCategory(env.categories),
                                 tag |-> args.version_string,
                                 cloned |-> FALSE]
            ELSE /\ deployed' = [path |-> IF args.deploy_path # ""
                                          THEN args.deploy_path
                                          ELSE CorrectCategory(env.categories),
                                 tag |-> args.version_string,
                                 cloned |-> ~args.dry_run]
                 /\ pc' = "finally"
                 /\ UNCHANGED exc
    /\ UNCHANGED <<args, originTags, repo, workdir, repoTags, version_string,
                   files, plcproj_file, plcproj_root, plcproj_disk,
                   GV_TcGVL_file, commit, pushStatus, return_value, exit,
                   error_msg, links, walks>>

(***************************************************************************)
(* main, lines 558-562: the handler.  exc.args[0] of an exception made     *)
(* without arguments raises IndexError inside the handler.                 *)
(***************************************************************************)
Except ==
    /\ pc = "except"
    /\ IF exc.nargs = 0
       THEN /\ exc' = Raise("IndexError", 1, 559)
            /\ UNCHANGED <<error_msg, return_value>>
       ELSE /\ exc' = NoExc
            /\ error_msg' = exc
            /\ return_value' = 1
    /\ pc' = "finally"
    /\ UNCHANGED <<args, originTags, repo, workdir, repoTags, version_string,
                   files, plcproj_file, plcproj_root, plcproj_disk,
                   GV_TcGVL_file, commit, pushStatus, deployed, exit, links,
                   walks>>

(***************************************************************************)
(* main, lines 563-569: the finally block, then line 570.                  *)
(***************************************************************************)
\* the handle closed at the end of the try body instead of in finally
CloseOnSuccess ==
    /\ pc = "finally"
    /\ repo' = IF return_value = 0 /\ exc = NoExc THEN "closed" ELSE repo
    /\ pc' = "cleanup"
    /\ UNCHANGED <<args, originTags, workdir, repoTags, version_string, files,
                   plcproj_file, plcproj_root, plcproj_disk, GV_TcGVL_file,
                   commit, pushStatus, deployed, exc, error_msg, return_value,
                   exit, links, walks>>

Close ==
    /\ pc = "finally"
    /\ repo' = "closed"
    /\ pc' = "cleanup"
    /\ UNCHANGED <<args, originTags, workdir, repoTags, version_string,
                   files, plcproj_file, plcproj_root, plcproj_disk,
                   GV_TcGVL_file, commit, pushStatus, deployed, exc,
                   return_value, exit, error_msg, links, walks>>

Cleanup ==
    /\ pc = "cleanup"
    /\ workdir' = IF args.dry_run THEN workdir ELSE "removed"
    /\ pc' = "return"
    /\ UNCHANGED <<args, originTags, repo, repoTags, version_string, files,
                   plcproj_file, plcproj_root, plcproj_disk, GV_TcGVL_file,
                   commit, pushStatus, deployed, exc, return_value, exit,
                   error_msg, links, walks>>

\* line 570, and the end of the process: what it held in memory is gone
Return ==
    /\ pc = "return"
    /\ exit' = IF exc # NoExc THEN "raised" ELSE "returned"
    /\ pc' = "exited"
    /\ args' = NoArgs
    /\ repo' = "none"
    /\ repoTags' = {}
    /\ version_string' = [found |-> FALSE, group |-> <<>>]
    /\ files' = <<>>
    /\ plcproj_file' = 0
    /\ plcproj_root' = NoDoc
    /\ plcproj_disk' = NoDoc
    /\ GV_TcGVL_file' = NoGVL
    /\ commit' = NoCommit
    /\ pushStatus' = 0
    /\ deployed' = NoDeploy
    /\ exc' = NoExc
    /\ error_msg' = NoExc
    /\ UNCHANGED <<originTags, workdir, return_value, links, walks>>

Next ==
    \/ Start
    \/ Prepare
    \/ Validate
    \/ LocateProject
    \/ ParseProject
    \/ BuildGVL
    \/ LinkProject
    \/ Commit
    \/ Push
    \/ MakeDeploy
    \/ Except
    \/ Close
    \/ Cleanup
    \/ Return

Spec == Init /\ [][Next]_vars

(***************************************************************************)
(* Successive runs of the linking step of make_release on one project      *)
(* file: each run parses the file (line 364), links (480-500) and writes   *)
(* it (504); a run that raises writes nothing.                             *)
(***************************************************************************)
LinkFiles ==
    {ProjectFile(x, TRUE, TRUE, items) : x \in BOOLEAN, items \in ItemSeqs}

LinkInit ==
    /\ pc = "idle"
    /\ args = NoArgs
    /\ originTags = {}
    /\ repo = "none"
    /\ workdir = "absent"
    /\ repoTags = {}
    /\ version_string = [found |-> FALSE, group |-> <<>>]
    /\ files = <<>>
    /\ plcproj_file = 0
    /\ plcproj_root = NoDoc
    /\ plcproj_disk = NoDoc
    /\ GV_TcGVL_file = NoGVL
    /\ commit = NoCommit
    /\ pushStatus = 0
    /\ deployed = NoDeploy
    /\ exc = NoExc
    /\ error_msg = NoExc
    /\ return_value = 0
    /\ exit = "running"
    /\ linkStart \in LinkFiles
    /\ linkFile = linkStart
    /\ linkRuns = 0
    /\ deploy_dir = NoDeployDir
    /\ make_dirs = NoMakeDirs

LinkRun ==
    /\ linkRuns < MaxLinkRuns
    /\ linkRuns' = linkRuns + 1
    /\ LET r == Link(Parse(linkFile))
       IN  /\ exc' = r.exc
           /\ plcproj_root' = r.root
           /\ linkFile' = IF r.exc = NoExc THEN Serialize(r.root) ELSE linkFile
    /\ UNCHANGED <<pc, args, originTags, repo, workdir, repoTags,
                   version_string, files, plcproj_file, plcproj_disk,
                   GV_TcGVL_file, commit, pushStatus, deployed, error_msg,
                   return_value, exit, linkStart, walks>>

SpecLink == LinkInit /\ [][LinkRun]_vars

(***************************************************************************)
(* find_makefiles, lines 161-200, applied to a directory tree.  A          *)
(* directory is the sequence of names that leads to it from the start      *)
(* directory, which is <<>>.  The tree is [dirs, makefiles, listing]: its  *)
(* directories, those of them that hold a file named "Makefile", and the   *)
(* order in which the file system lists names.                             *)
(***************************************************************************)
DirNames == {"a", "b", ".git"}

\* the trees of at most n directories below the start directory
RECURSIVE DirTrees(_)
DirTrees(n) ==
    IF n = 0
    THEN {{<<>>}}
    ELSE LET T == DirTrees(n - 1)
         IN  T \cup UNION {{t \cup {Append(p, name)} : p \in t, name \in DirNames}
                           : t \in T}

Listings ==
    {l \in [1..Cardinality(DirNames) -> DirNames] :
        \A i, j \in DOMAIN l : l[i] = l[j] => i = j}

\* os.walk, line 188: the names of the directories in dirpath, as listed
Dirnames(dirpath, tree) ==
    SelectSeq(tree.listing, LAMBDA name : Append(dirpath, name) \in tree.dirs)

\* list.remove of a name a listing holds at most once; absent: ValueError,
\* passed over at lines 197-198
Remove(names, name) == SelectSeq(names, LAMBDA n : n # name)

\* the loop body without the dirnames.clear() of line 192
DescendAll(names, hasMakefile) == Remove(names, ".git")

\* lines 189-198: the names os.walk goes down into after the loop body
Descend(names, hasMakefile) ==
    IF hasMakefile THEN <<>> ELSE Remove(names, ".git")

\* lines 184-200: the loop over the walker, top-down and depth-first; stack
\* holds the directories still to visit
RECURSIVE Walker(_, _, _)
Walker(stack, tree, found) ==
    IF stack = <<>>
    THEN found
    ELSE LET dirpath == Head(stack)
             hasMakefile == dirpath \in tree.makefiles
             down == Descend(Dirnames(dirpath, tree), hasMakefile)
             below == [i \in 1..Len(down) |-> Append(dirpath, down[i])]
         IN  Walker(below \o Tail(stack), tree,
                    IF hasMakefile THEN Append(found, dirpath) ELSE found)

find_makefiles(tree) == Walker(<< <<>> >>, tree, <<>>)

MakeInit ==
    /\ pc = "idle"
    /\ args = NoArgs
    /\ originTags = {}
    /\ repo = "none"
    /\ workdir = "absent"
    /\ repoTags = {}
    /\ version_string = [found |-> FALSE, group |-> <<>>]
    /\ files = <<>>
    /\ plcproj_file = 0
    /\ plcproj_root = NoDoc
    /\ plcproj_disk = NoDoc
    /\ GV_TcGVL_file = NoGVL
    /\ commit = NoCommit
    /\ pushStatus = 0
    /\ deployed = NoDeploy
    /\ exc = NoExc
    /\ error_msg = NoExc
    /\ return_value = 0
    /\ exit = "running"
    /\ linkStart = NoDoc
    /\ linkFile = NoDoc
    /\ linkRuns = 0
    /\ \E t \in DirTrees(MaxDirs) : \E m \in SUBSET t : \E l \in Listings :
          deploy_dir = [dirs |-> t, makefiles |-> m, listing |-> l]
    /\ make_dirs = NoMakeDirs

\* deploy, line 239: make_dirs = find_makefiles(deploy_dir)
FindMakefiles ==
    /\ make_dirs = NoMakeDirs
    /\ make_dirs' = [list |-> find_makefiles(deploy_dir)]
    /\ UNCHANGED <<pc, args, originTags, repo, workdir, repoTags,
                   version_string, files, plcproj_file, plcproj_root,
                   plcproj_disk, GV_TcGVL_file, commit, pushStatus, deployed,
                   exc, error_msg, return_value, exit, links, deploy_dir>>

SpecMake == MakeInit /\ [][FindMakefiles]_vars

(***************************************************************************)
(* Properties.  What the statements below speak of, said without the       *)
(* operators of the model where the statement has words of its own.        *)
(***************************************************************************)
\* an invocation is under way
Running == args # NoArgs

\* the exception raised at this line is in flight, or was handled by main
RaisedAt(line) ==
    \/ exc # NoExc /\ exc.line = line
    \/ error_msg # NoExc /\ error_msg.line = line

\* an exception raised at one of these lines is in flight, or was handled
RaisedIn(lines) ==
    \/ exc # NoExc /\ exc.line \in lines
    \/ error_msg # NoExc /\ error_msg.line \in lines

\* some step of make_release (lines 306-530) raised
ReleaseRaised == RaisedIn(306..530)

\* make_release wrote no file, made no commit and no tag, and did not push
NothingDone ==
    /\ plcproj_disk = NoDoc
    /\ GV_TcGVL_file = NoGVL
    /\ commit = NoCommit
    /\ pushStatus = 0
    /\ Running => args.version_string \notin (repoTags \ originTags)

\* the tag check of line 332 was reached: the remote was added and fetched
\* and master checked out
TagCheckReached ==
    /\ Running
    /\ pc # "prepare"
    /\ ~RaisedAt(319) /\ ~RaisedAt(322) /\ ~RaisedAt(326)

\* the locator (lines 345-360) has run in this invocation
LocatorRan == Running /\ version_string.found /\ pc # "locate"

\* a *.plcproj file name, whatever its case
IsProjectName(name) ==
    Len(name) >= 2 /\ name[Len(name)] \in {"plcproj", "PLCPROJ"}

ProjectNames(tree) == SelectSeq(tree, IsProjectName)

\* the base file name without its extension
BaseName(name) == SubSeq(name, 1, Len(name) - 1)

\* C1: when the tag check is reached with full_version_string among the tags
\* of the repository as fetched, make_release has returned without raising,
\* wrote neither file, made no commit and no tag, and pushed nothing.
C1_ExistingTagSkips ==
    (TagCheckReached /\ commit = NoCommit /\ args.version_string \in repoTags)
        => /\ pc \in {"deploy", "except", "finally", "cleanup", "return"}
           /\ ~ReleaseRaised
           /\ NothingDone

\* a second release of a tag that an earlier invocation pushed returns early
C1_Witness ==
    /\ pc = "deploy"
    /\ commit = NoCommit
    /\ args.version_string = <<"v">> \o Dotted(5)
    /\ args.version_string \in repoTags

\* C8: without a selector the locator raises not-found (line 349) when the
\* scan finds no *.plcproj file, raises the ambiguity error (line 358) when
\* it finds two or more, and selects the file when it finds exactly one; in
\* both failure cases nothing is written, committed, tagged or pushed.
C8_LocatorWithoutSelector ==
    (LocatorRan /\ args.plcproj = <<>>)
        => LET found == ProjectNames(files)
           IN  /\ Len(found) = 0 => RaisedAt(349) /\ NothingDone
               /\ Len(found) >= 2 => RaisedAt(358) /\ NothingDone
               /\ Len(found) = 1 =>
                    /\ plcproj_file = 1
                    /\ ~RaisedAt(349) /\ ~RaisedAt(356) /\ ~RaisedAt(358)

\* two project files, one of them found only by ignoring case, no selector
C8_Witness ==
    /\ LocatorRan
    /\ args.plcproj = <<>>
    /\ files = <<FilePool[2], FilePool[3]>>
    /\ exc # NoExc /\ exc.line = 358

\* C10: the handle is closed before the working directory is removed, and
\* when main is about to leave (by return or by an exception) the handle is
\* closed and the directory is removed exactly when dry_run was not asked.
C10_CloseThenCleanup ==
    /\ (Running /\ workdir = "removed") => repo = "closed"
    /\ pc = "cleanup" => repo = "closed"
    /\ pc = "return" =>
          /\ repo = "closed"
          /\ (workdir = "removed") <=> ~args.dry_run
          /\ args.dry_run => workdir \in {"fresh", "stale"}

\* main leaves by an exception, handle closed and directory removed
C10_Witness ==
    /\ pc = "return"
    /\ exc # NoExc
    /\ repo = "closed"
    /\ workdir = "removed"

\* the ItemGroup entries of a project file with this tag and Include
Entries(file, tag, include) ==
    {i \in 1..Len(file.items) :
        file.items[i].tag = tag /\ file.items[i].include = include}

\* the last linking run wrote the file
LinkedOk == linkRuns >= 1 /\ exc = NoExc

\* C2: after any number of linking runs on a project file that had at most
\* one Folder entry for "Version", the file has exactly one such entry.
C2_FolderLinkIdempotent ==
    (LinkedOk /\ Cardinality(Entries(linkStart, "Folder", VersionInclude)) <= 1)
        => Cardinality(Entries(linkFile, "Folder", VersionInclude)) = 1

\* C3: after any number of linking runs on a project file that had no Compile
\* entry for Version\Global_Version.TcGVL, or one with its SubType child, the
\* file has exactly one such entry, and it has its child.
C3_CompileLinkIdempotent ==
    (/\ LinkedOk
     /\ Cardinality(Entries(linkStart, "Compile", GVLInclude)) <= 1
     /\ \A i \in Entries(linkStart, "Compile", GVLInclude) :
            linkStart.items[i].children = 1)
        => /\ Cardinality(Entries(linkFile, "Compile", GVLInclude)) = 1
           /\ \A i \in Entries(linkFile, "Compile", GVLInclude) :
                  linkFile.items[i].children = 1

\* the entry added by the first run is still the only one after a later run
C3_Witness ==
    /\ LinkedOk
    /\ linkRuns >= 2
    /\ Entries(linkStart, "Compile", GVLInclude) = {}
    /\ Cardinality(Entries(linkFile, "Compile", GVLInclude)) = 1

\* the components of the version that make_release extracted
Components == Split(version_string.group)

\* C4: for a version of at least 3 dotted components the computation of the
\* fields (lines 427-434) does not raise, and the iRevision written is the
\* 5th component when there is one and "0" when there are fewer than 5.
C4_RevisionOfVersion ==
    (Running /\ version_string.found /\ Len(Components) >= 3)
        => /\ \A line \in 427..434 : ~RaisedAt(line)
           /\ GV_TcGVL_file # NoGVL =>
                GV_TcGVL_file.Declaration.iRevision =
                    IF Len(Components) >= 5 THEN Components[5] ELSE <<"0">>

\* "v" followed by one or more digits or dots, and nothing else
WellFormedTag(t) ==
    /\ Len(t) >= 2
    /\ t[1] = "v"
    /\ \A i \in 2..Len(t) : IsDigitOrDot(t[i])

\* C5: a tag that is not "v" followed by digits and dots is rejected at the
\* validation of lines 336-340: make_release goes no further, sets no
\* ProjectVersion, writes nothing, makes no commit and no tag.
C5_WholeTagValidated ==
    (Running /\ ~WellFormedTag(args.version_string))
        => /\ pc \notin {"locate", "parse", "gvl", "link", "commit", "push"}
           /\ plcproj_root = NoDoc
           /\ NothingDone

\* the tag without its leading "v"
StripV(t) == IF Len(t) >= 1 /\ t[1] = "v" THEN Tail(t) ELSE t

\* C6: once the commit is made, ProjectVersion in the project file and
\* sVersion in Global_Version.TcGVL are both the tag without its leading
\* "v", and iMajor, iMinor, iBuild are its first three dotted components.
C6_VersionAgrees ==
    commit # NoCommit
        => LET v == StripV(args.version_string)
               d == GV_TcGVL_file.Declaration
           IN  /\ plcproj_disk.ProjectVersion.text = v
               /\ d.sVersion = v
               /\ Len(Split(v)) >= 3
               /\ d.iMajor = Split(v)[1]
               /\ d.iMinor = Split(v)[2]
               /\ d.iBuild = Split(v)[3]

\* C7: with a selector and at least one *.plcproj found, the locator selects
\* a found file whose base name without extension is the selector, and
\* raises not-found for the selector (line 356) when there is no such file.
C7_LocatorWithSelector ==
    (LocatorRan /\ args.plcproj # <<>> /\ Len(ProjectNames(files)) >= 1)
        => LET found == ProjectNames(files)
           IN  IF \E i \in 1..Len(found) : BaseName(found[i]) = args.plcproj
               THEN /\ plcproj_file # 0
                    /\ BaseName(found[plcproj_file]) = args.plcproj
               ELSE RaisedAt(356)

\* C9: main leaves by return, never by an exception, with 1 when a step of
\* make_release or make_deploy raised and 0 when none did.
C9_MainReturnsStatus ==
    pc = "return"
        => /\ exc = NoExc
           /\ return_value = IF error_msg # NoExc THEN 1 ELSE 0

\* both files were written and staged, the commit made and the tag created
\* at it, all in this invocation
CommittedAndTagged ==
    /\ plcproj_disk # NoDoc
    /\ GV_TcGVL_file # NoGVL
    /\ commit # NoCommit
    /\ commit.staged = {"Global_Version.TcGVL", "plcproj"}
    /\ commit.tag = args.version_string
    /\ args.version_string \in repoTags

\* C11: an invocation pushes at most once; a push happens only with dry_run
\* false and only after both files were written, staged and committed and
\* the tag created in the same invocation; with dry_run true a run that gets
\* past the commit has the commit and the local tag but no push; and when a
\* step of make_release raised there is no push.
C11_PushOnlyAfterCommit ==
    /\ pushStatus <= 1
    /\ pushStatus = 1 => Running /\ ~args.dry_run /\ CommittedAndTagged
    /\ (Running /\ args.dry_run) => pushStatus = 0
    /\ (Running /\ args.dry_run /\ pc = "deploy"
          /\ args.version_string \notin originTags)
         => CommittedAndTagged /\ pushStatus = 0
    /\ (Running /\ ~args.dry_run /\ pc = "deploy" /\ commit # NoCommit)
         => pushStatus = 1 /\ args.version_string \in originTags
    /\ ReleaseRaised => pushStatus = 0

\* a dry run past the push step: commit and tag made locally, nothing pushed
C11_Witness ==
    /\ Running /\ args.dry_run /\ pc = "return"
    /\ CommittedAndTagged
    /\ pushStatus = 0
    /\ args.version_string \notin originTags

\* directory p is directory q or a directory above it
IsPrefix(p, q) == Len(p) <= Len(q) /\ SubSeq(q, 1, Len(p)) = p

\* the directory is a .git directory or lies inside one
InGit(p) == \E i \in DOMAIN p : p[i] = ".git"

\* the directories find_makefiles returned
Returned == {make_dirs.list[i] : i \in DOMAIN make_dirs.list}

\* C12: every directory find_makefiles returns holds a Makefile, no returned
\* directory lies below another returned directory, and every directory of
\* the tree that holds a Makefile and is not inside a .git directory is
\* returned or lies below a returned directory.
C12_HighestMakefiles ==
    make_dirs # NoMakeDirs =>
        /\ \A r \in Returned : r \in deploy_dir.makefiles
        /\ \A r, q \in Returned : r # q => ~IsPrefix(r, q)
        /\ \A p \in deploy_dir.makefiles :
              ~InGit(p) => \E r \in Returned : IsPrefix(r, p)

\* two directories returned, a Makefile left out below one of them and
\* another left out inside a .git directory
C12_Witness ==
    /\ make_dirs # NoMakeDirs
    /\ Len(make_dirs.list) = 2
    /\ \E p \in deploy_dir.makefiles \ Returned :
          ~InGit(p) /\ \E r \in Returned : IsPrefix(r, p)
    /\ \E p \in deploy_dir.makefiles \ Returned : InGit(p)

\* make_deploy or deploy (lines 203-289) raised; the IndexError of line 559
\* comes from handling the StopIteration of line 261
DeployRaised == RaisedAt(559) \/ RaisedIn(203..289)

\* make_release returned in this invocation, at line 334 or at line 530
ReleaseReturned ==
    /\ Running
    /\ pc \in {"deploy", "except", "finally", "cleanup", "return"}
    /\ ~ReleaseRaised

\* make_release returned at line 334: the tag existed
ReturnedEarly == ReleaseReturned /\ commit = NoCommit

\* make_deploy went past its test of the deploy flag (line 249)
DeployAttempted == deployed # NoDeploy \/ DeployRaised

\* C13: the deploy step is attempted only with the deploy flag set and after
\* make_release returned in the same invocation; when make_release raised,
\* make_deploy is not called; when make_release returned, also early at the
\* existing tag, make_deploy is called and with the flag set it deploys or
\* raises; with the flag unset make_deploy does nothing.
C13_DeployAfterRelease ==
    /\ DeployAttempted => Running /\ args.deploy /\ ReleaseReturned
    /\ ReleaseRaised => pc # "deploy" /\ ~DeployAttempted
    /\ (ReleaseReturned /\ pc # "deploy" /\ args.deploy) => DeployAttempted
    /\ (ReturnedEarly /\ pc \notin {"deploy", "except"}
          /\ args.deploy /\ ~DeployRaised)
         => /\ deployed.tag = args.version_string
            /\ deployed.cloned = ~args.dry_run
    /\ (Running /\ ~args.deploy) => ~DeployAttempted

\* the tag existed, make_release returned early and the deploy step cloned
\* the repository at the tag
C13_Witness ==
    /\ ReturnedEarly
    /\ pc = "return"
    /\ args.deploy
    /\ deployed # NoDeploy
    /\ deployed.cloned
    /\ deployed.tag = args.version_string

====
